---- MODULE Spec2Model ----
(***************************************************************************)
(* A model of src/main.py: the lecture transcription pipeline.             *)
(*                                                                         *)
(* main() gathers one process_subject coroutine per configured subject on  *)
(* one asyncio event loop.  A coroutine runs without interruption between  *)
(* two awaits, so each event-loop action below is one such stretch of      *)
(* code.  transcribe_multiple_videos has no await in it: it runs a thread  *)
(* pool from the event-loop thread and blocks that thread until every      *)
(* worker has finished, so event-loop actions are disabled while a subject *)
(* is transcribing and only worker-thread actions run.                     *)
(*                                                                         *)
(* The file system and the MongoDB collection outlive a run; everything    *)
(* else is lost when the process is killed (Crash) or ends (Rerun).        *)
(***************************************************************************)
EXTENDS Integers, Sequences, FiniteSets, TLC

VARIABLES
    remote,         \* subject -> listing returned by service.files().list
    cpuCount,       \* os.cpu_count()
    run,            \* number of the current run of main()
    mainDone,       \* "Script completed." was printed in this run
    faults,         \* environment failures injected so far
    store,          \* processed_collection: (subject, video_name) -> number of records
    tempFiles,      \* disk: temp video path -> content
    audioFiles,     \* disk: extracted audio path -> content
    artifacts,      \* disk: transcript path -> [exists, text]
    phase,          \* subject -> position of its process_subject coroutine
    unprocessed,    \* subject -> unprocessed_files
    dl,             \* subject -> download_tasks (one record per task)
    dlIdx,          \* subject -> index of the task the collecting loop awaits
    downloaded,     \* subject -> downloaded_videos, in insertion order
    wk,             \* subject -> one worker record per submitted video path
    completed,      \* subject -> futures in order of completion: <<k, text>>
    transcriptions, \* subject -> result of transcribe_multiple_videos
    persist,        \* subject -> process_tasks (one record per task)
    hist            \* history (read by the properties only): per run, the keys
                    \* verified, transcribed and marked, the subjects whose listing
                    \* raised, the store at the start; over all runs, the keys written

vars == <<remote, cpuCount, run, mainDone, faults, store, tempFiles, audioFiles,
          artifacts, phase, unprocessed, dl, dlIdx, downloaded, wk, completed,
          transcriptions, persist, hist>>

(***************************************************************************)
(* Bounds of the model.                                                    *)
(***************************************************************************)
MaxRuns == 2
MaxFaults == 3

(***************************************************************************)
(* Configuration and remote file sets.                                     *)
(***************************************************************************)
\* config['subjects'], in the order main() creates the coroutines
Subjects == <<"A", "B">>
SubjectSet == {Subjects[i] : i \in 1..Len(Subjects)}

\* A display name is <<root, extension>>.
LecMp4 == <<"lec", ".mp4">>
LecMkv == <<"lec", ".mkv">>
Names == {LecMp4, LecMkv}

File(id, name) == [id |-> id, name |-> name]

\* The machines and remote file sets explored, as <<os.cpu_count(), listing>>: a
\* listing that repeats a display name beside a second subject that lists the
\* same display name, and names that differ only in their extension beside a
\* subject with no video, on one core and on eight.
Worlds ==
    { <<2, [A |-> <<File("f1", LecMp4), File("f2", LecMp4)>>, B |-> <<File("f3", LecMp4)>>]>>,
      <<2, [A |-> <<File("f1", LecMp4), File("f2", LecMkv)>>, B |-> << >>]>>,
      <<8, [A |-> <<File("f1", LecMp4), File("f2", LecMkv)>>, B |-> << >>]>> }

(***************************************************************************)
(* Paths.                                                                  *)
(***************************************************************************)
\* temp_video = f"temp_{file_name}"
TempVideo(name) == <<"temp_", name[1], name[2]>>
\* base_name = os.path.splitext(os.path.basename(video_path))[0]
BaseName(path) == <<path[1], path[2]>>
\* audio_path = f"temp_audio_{base_name}.wav"
AudioPath(path) == <<"temp_audio_">> \o BaseName(path) \o <<".wav">>
\* txt_name = f"{video_name}_transcript.txt"
TxtName(name) == <<name[1], name[2], "_transcript.txt">>

TempPaths == {TempVideo(n) : n \in Names}
AudioPaths == {AudioPath(p) : p \in TempPaths}
TxtPaths == {TxtName(n) : n \in Names}

(***************************************************************************)
(* Texts: sequences of characters.  None is not a text.                    *)
(***************************************************************************)
None == <<"<None>">>
NoFile == [exists |-> FALSE, text |-> << >>]
FileWith(text) == [exists |-> TRUE, text |-> text]

\* result["segments"] of a model: a list of segment texts
SegLists == { << >>, << <<" ", "a">>, <<"b", " ">> >> }

RECURSIVE LStrip(_)
LStrip(t) == IF t # << >> /\ Head(t) = " " THEN LStrip(Tail(t)) ELSE t
RECURSIVE RStrip(_)
RStrip(t) == IF t # << >> /\ t[Len(t)] = " " THEN RStrip(SubSeq(t, 1, Len(t) - 1)) ELSE t
\* str.strip()
Strip(t) == RStrip(LStrip(t))

\* formatted_text += f"{segment['text'].strip()}\n"
RECURSIVE FormatPrimary(_)
FormatPrimary(segs) ==
    IF segs = << >> THEN << >>
    ELSE Strip(Head(segs)) \o <<"\n">> \o FormatPrimary(Tail(segs))

\* formatted_text += f"{segment['text'].strip()}\n\n"
RECURSIVE FormatFallback(_)
FormatFallback(segs) ==
    IF segs = << >> THEN << >>
    ELSE Strip(Head(segs)) \o <<"\n", "\n">> \o FormatFallback(Tail(segs))

\* str(e) of an error raised by a model, as a sequence of words
ErrorMessages ==
    { <<"cannot", "reshape", "tensor", "of", "0", "elements">>,
      <<"mat1", "and", "mat2", "shapes", "in", "Linear">>,
      <<"CUDA", "out", "of", "memory">>,
      <<"tensor", "reshape", "is", "linear">> }

\* Mutant of IsShapeError: the test for "Linear" is lost.
IsReshapeErrorOnly(msg) ==
    \E i \in 1..(Len(msg) - 1) : msg[i] = "reshape" /\ msg[i + 1] = "tensor"

\* "reshape tensor" in str(e) or "Linear" in str(e)
IsShapeError(msg) ==
    \/ \E i \in 1..(Len(msg) - 1) : msg[i] = "reshape" /\ msg[i + 1] = "tensor"
    \/ \E i \in 1..Len(msg) : msg[i] = "Linear"

(***************************************************************************)
(* Small helpers.                                                          *)
(***************************************************************************)
MinOf(a, b) == IF a < b THEN a ELSE b
Range(f) == {f[i] : i \in DOMAIN f}
SubjIdx(s) == CHOOSE i \in 1..Len(Subjects) : Subjects[i] = s
Terminal(s) == phase[s] \in {"DONE", "ABORTED"}

\* Mutant of LoopFree: the batch is awaited, so the event loop keeps running.
LoopNeverBlocked == TRUE

\* The event-loop thread is inside transcribe_multiple_videos (which never
\* awaits) from the submission of the batch until the pool has shut down.
LoopFree == \A s \in SubjectSet : phase[s] # "transcribing"

\* One more environment failure may be injected.
MayFail == faults < MaxFaults

(***************************************************************************)
(* The store.                                                              *)
(***************************************************************************)
\* processed_collection.find_one({'subject': subject, 'video_name': name})
FindOne(st, s, name) == st[<<s, name>>] > 0
\* processed_collection.insert_one({'subject': subject, 'video_name': name})
InsertOne(st, s, name) == [st EXCEPT ![<<s, name>>] = @ + 1]

\* Mutant of FilterUnprocessed: the store is not consulted.
FilterNothing(st, s, files) == files

\* unprocessed_files: the listed files with no record, in listing order
RECURSIVE FilterUnprocessed(_, _, _)
FilterUnprocessed(st, s, files) ==
    IF files = << >> THEN << >>
    ELSE IF ~FindOne(st, s, Head(files).name)
         THEN <<Head(files)>> \o FilterUnprocessed(st, s, Tail(files))
         ELSE FilterUnprocessed(st, s, Tail(files))

(***************************************************************************)
(* Initial state and the state at the start of a run.                      *)
(***************************************************************************)
NoSeqs == [s \in SubjectSet |-> << >>]

AllMarked(st, rem) ==
    \A s \in SubjectSet : \A i \in 1..Len(rem[s]) : FindOne(st, s, rem[s][i].name)

\* What a new process starts from: nothing but the disk and the store.
FreshRun ==
    /\ phase' = [s \in SubjectSet |-> "init"]
    /\ unprocessed' = NoSeqs
    /\ dl' = NoSeqs
    /\ dlIdx' = [s \in SubjectSet |-> 1]
    /\ downloaded' = NoSeqs
    /\ wk' = NoSeqs
    /\ completed' = NoSeqs
    /\ transcriptions' = NoSeqs
    /\ persist' = NoSeqs
    /\ mainDone' = FALSE

NewRunHist(h, st, rem, mid) ==
    [h EXCEPT !.verified = {},
              !.transcribed = {},
              !.crashMid = mid,
              !.allDoneAtStart = AllMarked(st, rem),
              !.storeAtStart = st,
              !.dlStarted = FALSE,
              !.txSubmitted = FALSE,
              !.listRaised = {},
              !.marked = {},
              !.emptyText = {}]

Init ==
    /\ \E w \in Worlds : cpuCount = w[1] /\ remote = w[2]
    /\ run = 1
    /\ mainDone = FALSE
    /\ faults = 0
    /\ store = [k \in SubjectSet \X Names |-> 0]
    /\ tempFiles = [p \in TempPaths |-> "absent"]
    /\ audioFiles = [p \in AudioPaths |-> "absent"]
    /\ artifacts = [p \in TxtPaths |-> NoFile]
    /\ phase = [s \in SubjectSet |-> "init"]
    /\ unprocessed = NoSeqs
    /\ dl = NoSeqs
    /\ dlIdx = [s \in SubjectSet |-> 1]
    /\ downloaded = NoSeqs
    /\ wk = NoSeqs
    /\ completed = NoSeqs
    /\ transcriptions = NoSeqs
    /\ persist = NoSeqs
    /\ hist = [verified |-> {}, transcribed |-> {}, written |-> {},
               crashMid |-> {}, allDoneAtStart |-> FALSE,
               storeAtStart |-> [k \in SubjectSet \X Names |-> 0],
               dlStarted |-> FALSE, txSubmitted |-> FALSE,
               listRaised |-> {}, marked |-> {}, emptyText |-> {}]

(***************************************************************************)
(* process_subject, from its start to its first await (lines 189-226).     *)
(***************************************************************************)
\* Mutant of Aborted: the error is not caught in process_subject, so gather()
\* re-raises it in main() and asyncio.run cancels every other subject.
AbortedAll(s) == [t \in SubjectSet |-> "ABORTED"]

\* except Exception of lines 280-281: the error ends this subject only
Aborted(s) == [phase EXCEPT ![s] = "ABORTED"]

\* (retry: retry_count; tries: the passes of the loop begun; waits: the delays
\* slept so far, in seconds)
NewTask(file) == [file |-> file, st |-> "created", retry |-> 0, tries |-> 0, waits |-> << >>]

SubjectList(s) ==
    /\ ~mainDone
    /\ LoopFree
    /\ phase[s] = "init"
    \* the coroutines start in the order gather() was given them
    /\ \A i \in 1..(SubjIdx(s) - 1) : phase[Subjects[i]] # "init"
    /\ \E raises \in {b \in BOOLEAN : b => MayFail} :
        IF raises
        THEN \* service.files().list(...).execute() raises: the except of line 280
             /\ phase' = Aborted(s)
             /\ faults' = faults + 1
             /\ hist' = [hist EXCEPT !.listRaised = @ \cup {s}]
             /\ UNCHANGED <<unprocessed, dl>>
        ELSE LET files == remote[s]
                 todo == FilterUnprocessed(store, s, files)
             IN  /\ unprocessed' = [unprocessed EXCEPT ![s] = todo]
                 /\ dl' = [dl EXCEPT ![s] = [i \in 1..Len(todo) |-> NewTask(todo[i])]]
                 /\ phase' = [phase EXCEPT ![s] =
                        IF files = << >> \/ todo = << >> THEN "DONE" ELSE "downloading"]
                 /\ UNCHANGED <<faults, hist>>
    /\ UNCHANGED <<remote, cpuCount, run, mainDone, store, tempFiles, audioFiles,
                   artifacts, dlIdx, downloaded, wk, completed, transcriptions, persist>>

(***************************************************************************)
(* download_video: one pass of the retry loop (lines 107-129).             *)
(***************************************************************************)
MaxRetries == 3

\* Every task created before task i of subject s has had its first turn.
StartedBefore(s, i) ==
    /\ \A j \in 1..(i - 1) : dl[s][j].st # "created"
    /\ \A k \in 1..(SubjIdx(s) - 1) :
            \A j \in 1..Len(dl[Subjects[k]]) : dl[Subjects[k]][j].st # "created"

AllStarted ==
    /\ \A s \in SubjectSet : phase[s] # "init"
    /\ \A s \in SubjectSet : \A j \in 1..Len(dl[s]) : dl[s][j].st # "created"

\* Mutant of WaitTime: the exponent starts at 0.
WaitTimeFromOne(retry) == 2 ^ (retry - 1)

\* wait_time = 2 ** retry_count
WaitTime(retry) == 2 ^ retry

\* Mutant of AfterFailure: retry_count <= max_retries, one pass too many.
AfterFailureOffByOne(task) ==
    [task EXCEPT !.retry = @ + 1,
                 !.st = IF task.retry + 1 <= MaxRetries THEN "sleeping" ELSE "failed",
                 !.waits = IF task.retry + 1 <= MaxRetries
                           THEN Append(@, WaitTime(task.retry + 1)) ELSE @]

\* The task after an attempt that raised: sleep and retry, or re-raise.
AfterFailure(task) ==
    [task EXCEPT !.retry = @ + 1,
                 !.st = IF task.retry + 1 < MaxRetries THEN "sleeping" ELSE "failed",
                 !.waits = IF task.retry + 1 < MaxRetries
                           THEN Append(@, WaitTime(task.retry + 1)) ELSE @]

DownloadAttempt(s, i) ==
    /\ ~mainDone
    /\ LoopFree
    /\ phase[s] = "downloading"
    /\ i \in 1..Len(dl[s])
    /\ dl[s][i].st \in {"created", "sleeping"}
    /\ dl[s][i].st = "created" =>
            /\ \A t \in SubjectSet : phase[t] # "init"
            /\ StartedBefore(s, i)
    /\ LET task == [dl[s][i] EXCEPT !.tries = @ + 1]
           path == TempVideo(task.file.name)
       IN  \E outcome \in {"ok"} \cup (IF MayFail THEN {"zero", "partial", "fail"} ELSE {}) :
            /\ tempFiles' = [tempFiles EXCEPT ![path] =
                    IF outcome \in {"ok", "partial"} THEN "data" ELSE "empty"]
            /\ dl' = [dl EXCEPT ![s][i] =
                    IF outcome \in {"ok", "zero"} THEN [task EXCEPT !.st = "done"]
                    ELSE AfterFailure(task)]
            /\ faults' = IF outcome = "ok" THEN faults ELSE faults + 1
    /\ hist' = [hist EXCEPT !.dlStarted = TRUE]
    /\ UNCHANGED <<remote, cpuCount, run, mainDone, store, audioFiles, artifacts,
                   phase, unprocessed, dlIdx, downloaded, wk, completed,
                   transcriptions, persist>>

(***************************************************************************)
(* process_subject: the loop that awaits the download tasks, and the code  *)
(* up to the submission of the batch to the pool (lines 223-244, 169-172). *)
(***************************************************************************)
\* os.path.exists(temp_path) and os.path.getsize(temp_path) > 0
Verified(tf, path) == tf[path] \notin {"absent", "empty"}

\* Mutant of PutDownloaded: a list of entries instead of a dict keyed by name.
PutDownloadedAppend(dv, file) ==
    Append(dv, [name |-> file.name, file |-> file, temp_path |-> TempVideo(file.name)])

\* downloaded_videos[file['name']] = {'file': file, 'temp_path': temp_path}
PutDownloaded(dv, file) ==
    LET entry == [name |-> file.name, file |-> file, temp_path |-> TempVideo(file.name)]
    IN  IF \E k \in 1..Len(dv) : dv[k].name = file.name
        THEN [k \in 1..Len(dv) |-> IF dv[k].name = file.name THEN entry ELSE dv[k]]
        ELSE Append(dv, entry)

\* The loop of lines 224-236 from task i on: `await task` returns at once for
\* a finished task and suspends the coroutine at the first unfinished one.
RECURSIVE Collect(_, _, _, _)
Collect(tasks, tf, i, dv) ==
    IF i > Len(tasks) \/ tasks[i].st \notin {"done", "failed"}
    THEN [idx |-> i, dv |-> dv]
    ELSE IF tasks[i].st = "done" /\ Verified(tf, TempVideo(tasks[i].file.name))
         THEN Collect(tasks, tf, i + 1, PutDownloaded(dv, tasks[i].file))
         ELSE Collect(tasks, tf, i + 1, dv)

\* max_workers = min(os.cpu_count() - 1 or 1, 3)
MaxWorkers(cpu) == MinOf(IF cpu - 1 = 0 THEN 1 ELSE cpu - 1, 3)

\* executor.submit(transcribe_with_progress, path)
\* (ret: the value transcribe_with_ffmpeg_preprocessing returned; perr: str(e)
\* of the primary model's error; fbCalls, fb, segs: the calls of the fallback
\* model, how the last one ended and the segments it produced)
Queued(path) == [path |-> path, st |-> "queued", ret |-> None, perr |-> << >>,
                 fbCalls |-> 0, fb |-> "none", segs |-> << >>]

SubjectCollect(s) ==
    /\ ~mainDone
    /\ LoopFree
    /\ phase[s] = "downloading"
    /\ AllStarted
    /\ dl[s][dlIdx[s]].st \in {"done", "failed"}
    /\ LET c == Collect(dl[s], tempFiles, dlIdx[s], downloaded[s])
           finished == c.idx > Len(dl[s])
       IN  /\ dlIdx' = [dlIdx EXCEPT ![s] = c.idx]
           /\ downloaded' = [downloaded EXCEPT ![s] = c.dv]
           /\ hist' = [hist EXCEPT
                    !.verified = @ \cup {<<s, c.dv[k].name>> : k \in 1..Len(c.dv)},
                    !.txSubmitted = @ \/ (finished /\ c.dv # << >>)]
           /\ phase' = [phase EXCEPT ![s] =
                    IF ~finished THEN "downloading"
                    ELSE IF c.dv = << >> THEN "DONE"     \* return of line 240
                    ELSE "transcribing"]
           /\ wk' = [wk EXCEPT ![s] =
                    IF finished THEN [k \in 1..Len(c.dv) |-> Queued(c.dv[k].temp_path)]
                    ELSE << >>]
    /\ UNCHANGED <<remote, cpuCount, run, mainDone, faults, store, tempFiles,
                   audioFiles, artifacts, unprocessed, dl, completed,
                   transcriptions, persist>>

(***************************************************************************)
(* A pool worker: transcribe_with_progress around                          *)
(* transcribe_with_ffmpeg_preprocessing (lines 32-103, 141-167).  Worker   *)
(* threads run in parallel, so each blocking call is a step of its own.    *)
(***************************************************************************)
Running(s) == {k \in 1..Len(wk[s]) : wk[s][k].st \in {"extracted", "fallback", "returned"}}

\* The function returns value v.
Returned(w, v) == [w EXCEPT !.st = "returned", !.ret = v]

\* A worker thread takes the oldest queued item, checks the video file and
\* runs ffmpeg (lines 144-53).
WorkerStart(s, k) ==
    /\ phase[s] = "transcribing"
    /\ k \in 1..Len(wk[s])
    /\ wk[s][k].st = "queued"
    /\ \A j \in 1..(k - 1) : wk[s][j].st # "queued"
    /\ Cardinality(Running(s)) < MaxWorkers(cpuCount)
    /\ LET w == wk[s][k]
           audio == AudioPath(w.path)
       IN  IF ~Verified(tempFiles, w.path)
           THEN \* "is empty or missing": the transcriber is not called
                /\ wk' = [wk EXCEPT ![s][k] = [w EXCEPT !.st = "done"]]
                /\ completed' = [completed EXCEPT ![s] =
                        Append(@, [k |-> k, text |-> None, called |-> FALSE, ret |-> None])]
                /\ UNCHANGED <<audioFiles, faults>>
           ELSE \E outcome \in {"ok"} \cup (IF MayFail THEN {"empty", "raise"} ELSE {}) :
                /\ audioFiles' = [audioFiles EXCEPT ![audio] =
                        CASE outcome = "ok" -> tempFiles[w.path]
                          [] outcome = "empty" -> "empty"
                          \* CalledProcessError: the handler of line 98 removes the file
                          [] OTHER -> "absent"]
                /\ wk' = [wk EXCEPT ![s][k] =
                        IF outcome = "raise" THEN Returned(w, None)
                        ELSE [w EXCEPT !.st = "extracted"]]
                /\ faults' = IF outcome = "ok" THEN faults ELSE faults + 1
                /\ UNCHANGED completed
    /\ UNCHANGED <<remote, cpuCount, run, mainDone, store, tempFiles, artifacts,
                   phase, unprocessed, dl, dlIdx, downloaded, transcriptions,
                   persist, hist>>

\* The check of the audio file and the primary model (lines 56-73, 91-97).
WorkerPrimary(s, k) ==
    /\ phase[s] = "transcribing"
    /\ k \in 1..Len(wk[s])
    /\ wk[s][k].st = "extracted"
    /\ LET w == wk[s][k]
           audio == AudioPath(w.path)
       IN  IF audioFiles[audio] \in {"absent", "empty"}
           THEN \* "Failed to extract audio": return None, nothing removed
                /\ wk' = [wk EXCEPT ![s][k] = Returned(w, None)]
                /\ UNCHANGED <<audioFiles, faults>>
           ELSE \/ \E segs \in SegLists :
                    /\ wk' = [wk EXCEPT ![s][k] =
                            Returned([w EXCEPT !.segs = segs], FormatPrimary(segs))]
                    /\ audioFiles' = [audioFiles EXCEPT ![audio] = "absent"]
                    /\ UNCHANGED faults
                \/ \E msg \in ErrorMessages :
                    /\ MayFail
                    /\ faults' = faults + 1
                    /\ IF IsShapeError(msg)
                       THEN /\ wk' = [wk EXCEPT ![s][k] =
                                    [w EXCEPT !.st = "fallback", !.perr = msg]]
                            /\ UNCHANGED audioFiles
                       ELSE /\ wk' = [wk EXCEPT ![s][k] =
                                    Returned([w EXCEPT !.perr = msg], None)]
                            /\ audioFiles' = [audioFiles EXCEPT ![audio] = "absent"]
    /\ UNCHANGED <<remote, cpuCount, run, mainDone, store, tempFiles, artifacts,
                   phase, unprocessed, dl, dlIdx, downloaded, completed,
                   transcriptions, persist, hist>>

\* The fallback model (lines 75-90).  When the audio file is gone the model
\* raises, os.remove raises in the handler and line 98 returns None.
WorkerFallback(s, k) ==
    /\ phase[s] = "transcribing"
    /\ k \in 1..Len(wk[s])
    /\ wk[s][k].st = "fallback"
    /\ LET w == [wk[s][k] EXCEPT !.fbCalls = @ + 1]
           audio == AudioPath(w.path)
       IN  /\ audioFiles' = [audioFiles EXCEPT ![audio] = "absent"]
           /\ IF audioFiles[audio] \in {"absent", "empty"}
              THEN /\ wk' = [wk EXCEPT ![s][k] = Returned([w EXCEPT !.fb = "failed"], None)]
                   /\ UNCHANGED faults
              ELSE \/ \E segs \in SegLists :
                        /\ wk' = [wk EXCEPT ![s][k] =
                                Returned([w EXCEPT !.fb = "ok", !.segs = segs],
                                         FormatFallback(segs))]
                        /\ UNCHANGED faults
                   \/ /\ MayFail
                      /\ faults' = faults + 1
                      /\ wk' = [wk EXCEPT ![s][k] = Returned([w EXCEPT !.fb = "failed"], None)]
    /\ UNCHANGED <<remote, cpuCount, run, mainDone, store, tempFiles, artifacts,
                   phase, unprocessed, dl, dlIdx, downloaded, completed,
                   transcriptions, persist, hist>>

\* Mutant of FutureText: `if text is not None:` in place of `if text:`.
FutureTextNonNull(ret) == ret

\* `if text:` of transcribe_with_progress: what the future completes with
FutureText(ret) == IF ret # None /\ ret # << >> THEN ret ELSE None

\* transcribe_with_progress returns and the future completes (lines 155-162).
\* (called, ret: whether the transcriber was called for the path, and the value
\* it returned)
WorkerReturn(s, k) ==
    /\ phase[s] = "transcribing"
    /\ k \in 1..Len(wk[s])
    /\ wk[s][k].st = "returned"
    /\ LET text == FutureText(wk[s][k].ret)
       IN  /\ completed' = [completed EXCEPT ![s] =
                    Append(@, [k |-> k, text |-> text, called |-> TRUE, ret |-> wk[s][k].ret])]
           /\ hist' = [hist EXCEPT
                    !.transcribed =
                        IF text # None THEN @ \cup {<<s, downloaded[s][k].name>>} ELSE @,
                    !.emptyText =
                        IF wk[s][k].ret = << >> THEN @ \cup {<<s, downloaded[s][k].name>>} ELSE @]
    /\ wk' = [wk EXCEPT ![s][k] = [Queued(@.path) EXCEPT !.st = "done"]]
    /\ UNCHANGED <<remote, cpuCount, run, mainDone, faults, store, tempFiles,
                   audioFiles, artifacts, phase, unprocessed, dl, dlIdx, downloaded,
                   transcriptions, persist>>

(***************************************************************************)
(* transcribe_multiple_videos returns; process_subject creates the persist *)
(* tasks or leaves (lines 175-185, 246-272).                               *)
(***************************************************************************)
\* Mutant of CollectResults: the mapping is returned from inside the loop, with
\* the first text collected.
CollectResultsFirst(done, workers) ==
    IF \E i \in 1..Len(done) : done[i].text # None
    THEN LET i == CHOOSE i \in 1..Len(done) :
                    /\ done[i].text # None
                    /\ \A j \in 1..(i - 1) : done[j].text = None
         IN  [p \in {workers[done[i].k].path} |-> done[i].text]
    ELSE << >>

\* results[path] = text for the futures whose text is not None, taken in the
\* order in which they completed
RECURSIVE CollectResults(_, _)
CollectResults(done, workers) ==
    IF done = << >> THEN << >>
    ELSE LET rest == CollectResults(SubSeq(done, 1, Len(done) - 1), workers)
             last == done[Len(done)]
             path == workers[last.k].path
         IN  IF last.text # None
             THEN [p \in (DOMAIN rest) \cup {path} |-> IF p = path THEN last.text ELSE rest[p]]
             ELSE rest

\* os.remove of every temp path of downloaded_videos that exists
RemoveTemps(tf, dv) ==
    [p \in TempPaths |-> IF \E k \in 1..Len(dv) : dv[k].temp_path = p THEN "absent" ELSE tf[p]]

\* Mutant of ProcessTasks: a task for every downloaded video, with an empty
\* text where the pool returned none (transcriptions.get(path, "")).
RECURSIVE ProcessTasksAll(_, _)
ProcessTasksAll(dv, texts) ==
    IF dv = << >> THEN << >>
    ELSE <<[name |-> Head(dv).name,
            text |-> IF Head(dv).temp_path \in DOMAIN texts
                     THEN texts[Head(dv).temp_path] ELSE << >>,
            st |-> "created"]>> \o ProcessTasksAll(Tail(dv), texts)

\* Mutant of ProcessTasks: the first video without a text ends the loop.
RECURSIVE ProcessTasksUntilMissing(_, _)
ProcessTasksUntilMissing(dv, texts) ==
    IF dv = << >> \/ Head(dv).temp_path \notin DOMAIN texts THEN << >>
    ELSE <<[name |-> Head(dv).name, text |-> texts[Head(dv).temp_path], st |-> "created"]>>
             \o ProcessTasksUntilMissing(Tail(dv), texts)

\* process_tasks: one task per downloaded video whose temp path has a text
RECURSIVE ProcessTasks(_, _)
ProcessTasks(dv, texts) ==
    IF dv = << >> THEN << >>
    ELSE IF Head(dv).temp_path \in DOMAIN texts
         THEN <<[name |-> Head(dv).name, text |-> texts[Head(dv).temp_path], st |-> "created"]>>
                  \o ProcessTasks(Tail(dv), texts)
         ELSE ProcessTasks(Tail(dv), texts)

PoolComplete(s) ==
    /\ phase[s] = "transcribing"
    /\ \A k \in 1..Len(wk[s]) : wk[s][k].st = "done"
    /\ LET texts == CollectResults(completed[s], wk[s])
       IN  /\ transcriptions' = [transcriptions EXCEPT ![s] = texts]
           /\ IF DOMAIN texts = {}
              THEN \* "No successful transcriptions": lines 246-252
                   /\ tempFiles' = RemoveTemps(tempFiles, downloaded[s])
                   /\ phase' = [phase EXCEPT ![s] = "DONE"]
                   /\ UNCHANGED persist
              ELSE /\ persist' = [persist EXCEPT ![s] = ProcessTasks(downloaded[s], texts)]
                   /\ phase' = [phase EXCEPT ![s] = "persisting"]
                   /\ UNCHANGED tempFiles
    /\ wk' = [wk EXCEPT ![s] = << >>]
    /\ completed' = [completed EXCEPT ![s] = << >>]
    /\ UNCHANGED <<remote, cpuCount, run, mainDone, faults, store, audioFiles,
                   artifacts, unprocessed, dl, dlIdx, downloaded, hist>>

(***************************************************************************)
(* process_transcribed_video (lines 283-300).  aiofiles runs each file     *)
(* operation in a thread and the coroutine awaits it, so the open, the     *)
(* write with the close that flushes it, and the insert that follows the   *)
(* close are three steps; an exception in any of them ends the task.       *)
(***************************************************************************)
PersistStep(s, j, from) ==
    /\ ~mainDone
    /\ LoopFree
    /\ phase[s] = "persisting"
    /\ j \in 1..Len(persist[s])
    /\ persist[s][j].st = from

SetTask(s, j, st) == persist' = [persist EXCEPT ![s][j].st = st]

\* Mutant of PersistOpen: the record is inserted before the file is written.
PersistOpenMarksFirst(s, j) ==
    /\ ~mainDone
    /\ LoopFree
    /\ phase[s] = "persisting"
    /\ j \in 1..Len(persist[s])
    /\ persist[s][j].st = "created"
    /\ persist' = [persist EXCEPT ![s][j].st = "opened"]
    /\ store' = [store EXCEPT ![<<s, persist[s][j].name>>] = @ + 1]
    /\ artifacts' = [artifacts EXCEPT ![TxtName(persist[s][j].name)] = FileWith(<< >>)]
    /\ UNCHANGED <<remote, cpuCount, run, mainDone, faults, tempFiles, audioFiles,
                   phase, unprocessed, dl, dlIdx, downloaded, wk, completed,
                   transcriptions, hist>>

\* aiofiles.open(txt_name, 'w'): the file is created or truncated
PersistOpen(s, j) ==
    /\ PersistStep(s, j, "created")
    /\ \E raises \in {b \in BOOLEAN : b => MayFail} :
        IF raises
        THEN SetTask(s, j, "error") /\ faults' = faults + 1 /\ UNCHANGED artifacts
        ELSE /\ SetTask(s, j, "opened")
             /\ artifacts' = [artifacts EXCEPT ![TxtName(persist[s][j].name)] = FileWith(<< >>)]
             /\ UNCHANGED faults
    /\ UNCHANGED <<remote, cpuCount, run, mainDone, store, tempFiles, audioFiles,
                   phase, unprocessed, dl, dlIdx, downloaded, wk, completed,
                   transcriptions, hist>>

\* await f.write(transcription) and the close on leaving the `async with`
PersistWrite(s, j) ==
    /\ PersistStep(s, j, "opened")
    /\ \E raises \in {b \in BOOLEAN : b => MayFail} :
        IF raises
        THEN SetTask(s, j, "error") /\ faults' = faults + 1 /\ UNCHANGED <<artifacts, hist>>
        ELSE /\ SetTask(s, j, "closed")
             /\ artifacts' = [artifacts EXCEPT ![TxtName(persist[s][j].name)] =
                                FileWith(persist[s][j].text)]
             \* written, in a run that verified and transcribed the video
             /\ hist' = [hist EXCEPT !.written =
                    IF <<s, persist[s][j].name>> \in hist.verified \cap hist.transcribed
                    THEN @ \cup {<<s, persist[s][j].name>>} ELSE @]
             /\ UNCHANGED faults
    /\ UNCHANGED <<remote, cpuCount, run, mainDone, store, tempFiles, audioFiles,
                   phase, unprocessed, dl, dlIdx, downloaded, wk, completed,
                   transcriptions>>

\* processed_collection.insert_one(...)
PersistMark(s, j) ==
    /\ PersistStep(s, j, "closed")
    /\ \E raises \in {b \in BOOLEAN : b => MayFail} :
        IF raises
        THEN SetTask(s, j, "error") /\ faults' = faults + 1 /\ UNCHANGED <<store, hist>>
        ELSE /\ SetTask(s, j, "done")
             /\ store' = InsertOne(store, s, persist[s][j].name)
             /\ hist' = [hist EXCEPT !.marked = @ \cup {<<s, persist[s][j].name>>}]
             /\ UNCHANGED faults
    /\ UNCHANGED <<remote, cpuCount, run, mainDone, tempFiles, audioFiles, artifacts,
                   phase, unprocessed, dl, dlIdx, downloaded, wk, completed,
                   transcriptions>>

\* gather(*process_tasks) has returned: the clean-up of lines 274-279
SubjectCleanup(s) ==
    /\ ~mainDone
    /\ LoopFree
    /\ phase[s] = "persisting"
    /\ \A j \in 1..Len(persist[s]) : persist[s][j].st \in {"done", "error"}
    /\ tempFiles' = RemoveTemps(tempFiles, downloaded[s])
    /\ phase' = [phase EXCEPT ![s] = "DONE"]
    /\ UNCHANGED <<remote, cpuCount, run, mainDone, faults, store, audioFiles,
                   artifacts, unprocessed, dl, dlIdx, downloaded, wk, completed,
                   transcriptions, persist, hist>>

(***************************************************************************)
(* main (lines 302-306), the death of the process and the next run.        *)
(***************************************************************************)
\* Mutant of MainComplete: main() returns when the first subject has ended.
MainCompleteEarly ==
    /\ ~mainDone
    /\ \E s \in SubjectSet : Terminal(s)
    /\ mainDone' = TRUE
    /\ UNCHANGED <<remote, cpuCount, run, faults, store, tempFiles, audioFiles,
                   artifacts, phase, unprocessed, dl, dlIdx, downloaded, wk,
                   completed, transcriptions, persist, hist>>

\* await asyncio.gather(*tasks) returns; "Script completed."
MainComplete ==
    /\ ~mainDone
    /\ \A s \in SubjectSet : Terminal(s)
    /\ mainDone' = TRUE
    /\ UNCHANGED <<remote, cpuCount, run, faults, store, tempFiles, audioFiles,
                   artifacts, phase, unprocessed, dl, dlIdx, downloaded, wk,
                   completed, transcriptions, persist, hist>>

\* The persist tasks caught between the opening of the artifact and the insert
MidPersist ==
    {<<s, n>> \in SubjectSet \X Names :
        \E j \in 1..Len(persist[s]) :
            persist[s][j].name = n /\ persist[s][j].st \in {"opened", "closed"}}

\* The process is killed during a run, and main() is run again.
Crash ==
    /\ ~mainDone
    /\ run < MaxRuns
    /\ run' = run + 1
    /\ FreshRun
    /\ hist' = NewRunHist(hist, store, remote, MidPersist)
    /\ UNCHANGED <<remote, cpuCount, faults, store, tempFiles, audioFiles, artifacts>>

\* main() is run again after a run that completed.
Rerun ==
    /\ mainDone
    /\ run < MaxRuns
    /\ run' = run + 1
    /\ FreshRun
    /\ hist' = NewRunHist(hist, store, remote, {})
    /\ UNCHANGED <<remote, cpuCount, faults, store, tempFiles, audioFiles, artifacts>>

\* A step of the program: of the event loop or of a worker thread
Step ==
    \/ \E s \in SubjectSet : SubjectList(s)
    \/ \E s \in SubjectSet : \E i \in 1..Len(dl[s]) : DownloadAttempt(s, i)
    \/ \E s \in SubjectSet : SubjectCollect(s)
    \/ \E s \in SubjectSet : \E k \in 1..Len(wk[s]) : WorkerStart(s, k)
    \/ \E s \in SubjectSet : \E k \in 1..Len(wk[s]) : WorkerPrimary(s, k)
    \/ \E s \in SubjectSet : \E k \in 1..Len(wk[s]) : WorkerFallback(s, k)
    \/ \E s \in SubjectSet : \E k \in 1..Len(wk[s]) : WorkerReturn(s, k)
    \/ \E s \in SubjectSet : PoolComplete(s)
    \/ \E s \in SubjectSet : \E j \in 1..Len(persist[s]) : PersistOpen(s, j)
    \/ \E s \in SubjectSet : \E j \in 1..Len(persist[s]) : PersistWrite(s, j)
    \/ \E s \in SubjectSet : \E j \in 1..Len(persist[s]) : PersistMark(s, j)
    \/ \E s \in SubjectSet : SubjectCleanup(s)
    \/ MainComplete

Next ==
    \/ Step
    \/ Crash
    \/ Rerun

Spec == Init /\ [][Next]_vars

\* The event loop runs every ready callback, the operating system schedules
\* every worker thread, and every external call returns or raises: a program
\* step that stays enabled is taken.  Nothing forces a crash or a new run.
FairSpec == Spec /\ WF_vars(Step)

(***************************************************************************)
(* Properties.                                                             *)
(***************************************************************************)
Keys == SubjectSet \X Names
TaskOf(s, n) == {j \in 1..Len(persist[s]) : persist[s][j].name = n}

\* A step that adds a record for a key is the step of a persist task of that
\* key that has left the `async with` block of the write.
MarkFollowsWrite ==
    \A key \in Keys :
        store'[key] > store[key] =>
            \E j \in TaskOf(key[1], key[2]) :
                /\ persist[key[1]][j].st = "closed"
                /\ persist'[key[1]][j].st = "done"

\* A video whose persist task was between the opening of its artifact and the
\* insert when the process died has no record at the start of the next run,
\* and a next run that lists it takes it as unprocessed and downloads it again.
CrashedIsRetried ==
    \A key \in hist.crashMid :
        /\ hist.storeAtStart[key] = 0
        /\ phase[key[1]] \notin {"init", "ABORTED"} =>
                /\ \E i \in 1..Len(unprocessed[key[1]]) : unprocessed[key[1]][i].name = key[2]
                /\ \E i \in 1..Len(dl[key[1]]) : dl[key[1]][i].file.name = key[2]

\* C1: write-before-mark.  The insert of a record happens only after the write
\* of the video's transcript has completed; a crash between the start of the
\* write and the insert leaves no record, and the next run processes the video
\* again.
WriteBeforeMark == [][MarkFollowsWrite]_vars /\ []CrashedIsRetried

\* C1 witness: a video caught mid-persist by a crash is marked by the next run.
CrashedThenMarked ==
    \E key \in hist.crashMid :
        \E j \in TaskOf(key[1], key[2]) : persist[key[1]][j].st = "done"

\* C2: a record exists only for a key whose download was verified, whose path
\* the pool returned a text for and whose artifact was written, all in one run.
RecordOnlyAfterSuccess ==
    /\ \A key \in Keys : store[key] > 0 => key \in hist.written
    /\ hist.marked \subseteq hist.verified \cap hist.transcribed

\* C2 witness: a record of an earlier run beside a record of this run.
RecordsOfTwoRuns ==
    /\ run > 1
    /\ \E key \in Keys : store[key] > 0 /\ key \notin hist.marked
    /\ hist.marked # {}

\* C3: at most one record per (subject, video name).
AtMostOneRecord == \A key \in Keys : store[key] <= 1

\* C3 witness: after a crashed run, a completed run has marked a video whose
\* display name the listing of its subject repeats.
RepeatedNameMarkedOnce ==
    /\ run > 1
    /\ mainDone
    /\ \E s \in SubjectSet : \E i, j \in 1..Len(remote[s]) :
            /\ i < j
            /\ remote[s][i].name = remote[s][j].name
            /\ store[<<s, remote[s][i].name>>] = 1
            /\ hist.crashMid # {}

\* No run is in progress: main() has completed, or the process has just died.
AtRest == mainDone \/ (run > 1 /\ \A s \in SubjectSet : phase[s] = "init")

\* C4: between runs, a transcript file that is present is not empty.
ArtifactNonEmpty ==
    AtRest => \A p \in TxtPaths : artifacts[p].exists => artifacts[p].text # << >>

\* C5: a run that starts with every listed video marked creates no download
\* task, submits nothing to the pool, takes each subject from the filter to
\* its end, and leaves the store as it was.
IdempotentRerun ==
    hist.allDoneAtStart =>
        /\ \A s \in SubjectSet :
                /\ dl[s] = << >>
                /\ wk[s] = << >>
                /\ phase[s] \in {"init", "DONE", "ABORTED"}
                /\ phase[s] = "ABORTED" => s \in hist.listRaised
        /\ ~hist.dlStarted
        /\ ~hist.txSubmitted
        /\ store = hist.storeAtStart

\* C5 witness: a second run over a fully marked store has completed.
SecondRunDidNothing ==
    /\ hist.allDoneAtStart
    /\ mainDone
    /\ \A s \in SubjectSet : phase[s] = "DONE"
    /\ \E key \in Keys : store[key] > 0

\* C6: once process_subject has returned, no temp file that one of its
\* download tasks created is on disk.
TempFilesRemoved ==
    \A s \in SubjectSet :
        Terminal(s) =>
            \A i \in 1..Len(dl[s]) :
                dl[s][i].st # "created" => tempFiles[TempVideo(dl[s][i].file.name)] = "absent"

\* C7: a subject whose listing raised is ABORTED and has marked nothing; when
\* every subject has ended, each other subject is DONE and each of its videos
\* that was downloaded and transcribed has had its persist task run to its
\* end, with a record unless the task failed.
SubjectIsolation ==
    /\ \A s \in hist.listRaised :
            /\ phase[s] = "ABORTED"
            /\ dl[s] = << >>
            /\ \A n \in Names : <<s, n>> \notin hist.marked
    /\ (\A s \in SubjectSet : Terminal(s)) =>
            \A s \in SubjectSet \ hist.listRaised :
                /\ phase[s] = "DONE"
                /\ \A k \in 1..Len(downloaded[s]) :
                        downloaded[s][k].temp_path \in DOMAIN transcriptions[s] =>
                            \E j \in TaskOf(s, downloaded[s][k].name) :
                                \/ persist[s][j].st = "error"
                                \/ persist[s][j].st = "done" /\ FindOne(store, s, downloaded[s][k].name)

\* C7 witness: main() has completed, one listing raised, and another subject
\* has marked a video in the same run.
OtherSubjectMarked ==
    /\ mainDone
    /\ hist.listRaised # {}
    /\ \E key \in hist.marked : key[1] \notin hist.listRaised

\* The transcriptions running, over all subjects
RECURSIVE SumRunning(_)
SumRunning(S) ==
    IF S = {} THEN 0
    ELSE LET s == CHOOSE x \in S : TRUE
         IN  Cardinality(Running(s)) + SumRunning(S \ {s})
TotalRunning == SumRunning(SubjectSet)

PoolCap == 3

\* C8: the transcriptions running at the same time, over all subjects, never
\* exceed the size of one pool, which is at most 3 on any machine.
GlobalPoolBound ==
    /\ TotalRunning <= MaxWorkers(cpuCount)
    /\ \A cpu \in 1..16 : MaxWorkers(cpu) \in 1..PoolCap

\* C8 witness: a pool is full with work still queued, while another subject
\* has its downloads done and waits to transcribe.
PoolFullOthersWait ==
    \E s, t \in SubjectSet :
        /\ s # t
        /\ Cardinality(Running(s)) = MaxWorkers(cpuCount)
        /\ phase[t] = "downloading"
        /\ \A i \in 1..Len(dl[t]) : dl[t][i].st = "done"

InFlight(task) == task.st \in {"created", "sleeping"}

\* C9: no two download tasks in flight in the same run use the same temp path.
TempPathsUnique ==
    \A s, t \in SubjectSet : \A i \in 1..Len(dl[s]) : \A j \in 1..Len(dl[t]) :
        (<<s, i>> # <<t, j>> /\ InFlight(dl[s][i]) /\ InFlight(dl[t][j])) =>
            TempVideo(dl[s][i].file.name) # TempVideo(dl[t][j].file.name)

\* The message holds "reshape tensor" or "Linear".
HasShapeMarker(msg) ==
    \/ \E i \in 1..(Len(msg) - 1) : SubSeq(msg, i, i + 1) = <<"reshape", "tensor">>
    \/ "Linear" \in Range(msg)

\* Each segment, stripped, followed by a blank line.
BlankLineJoined(segs) ==
    LET F[i \in 0..Len(segs)] ==
            IF i = 0 THEN << >> ELSE F[i - 1] \o Strip(segs[i]) \o <<"\n", "\n">>
    IN  F[Len(segs)]

\* C10: when transcribe_with_ffmpeg_preprocessing has returned after an error
\* of the primary model: with a shape marker in the message the fallback model
\* was called exactly once, and the result is its segments joined by blank
\* lines if it succeeded and None if it failed; with any other message the
\* fallback model was not called and the result is None.
FallbackTrigger ==
    \A s \in SubjectSet : \A k \in 1..Len(wk[s]) :
        LET w == wk[s][k]
        IN  (w.st = "returned" /\ w.perr # << >>) =>
                IF HasShapeMarker(w.perr)
                THEN /\ w.fbCalls = 1
                     /\ w.fb \in {"ok", "failed"}
                     /\ w.fb = "ok" => w.ret = BlankLineJoined(w.segs)
                     /\ w.fb = "failed" => w.ret = None
                ELSE w.fbCalls = 0 /\ w.fb = "none" /\ w.ret = None

\* C10 witness: the fallback model has produced a text after a "Linear" error.
FallbackProducedText ==
    \E s \in SubjectSet : \E k \in 1..Len(wk[s]) :
        /\ wk[s][k].st = "returned"
        /\ "Linear" \in Range(wk[s][k].perr)
        /\ wk[s][k].fb = "ok"
        /\ wk[s][k].ret = <<"a", "\n", "\n", "b", "\n", "\n">>

\* C11: under fair scheduling a run of main() that is not killed completes,
\* it completes only when every subject is DONE or ABORTED, and the only way a
\* subject is ABORTED is the error of its own listing call.
CoordinatorCompletes ==
    /\ [](mainDone => \A s \in SubjectSet : Terminal(s))
    /\ [](\A s \in SubjectSet : phase[s] = "ABORTED" => s \in hist.listRaised)
    /\ (~mainDone ~> mainDone)

\* C11 witness: main() has completed a run in which a listing raised, a
\* download failed for good and a persist task failed.
CompletedDespiteErrors ==
    /\ mainDone
    /\ hist.listRaised # {}
    /\ \E s \in SubjectSet : \E i \in 1..Len(dl[s]) : dl[s][i].retry > 0
    /\ \E s \in SubjectSet : \E j \in 1..Len(persist[s]) : persist[s][j].st = "error"

\* The passes of the retry loop: never more than 3; a task that returned did so
\* at its first pass that did not raise; a task that raised did so at its third.
RetryBounded ==
    \A s \in SubjectSet : \A i \in 1..Len(dl[s]) :
        LET task == dl[s][i]
        IN  /\ task.tries <= 3
            /\ task.st = "done" => task.tries = task.retry + 1
            /\ task.st = "sleeping" => task.tries = task.retry /\ task.tries < 3
            /\ task.st = "failed" => task.tries = 3 /\ task.retry = 3

\* A task that has returned or raised makes no further pass in that run.
NoPassAfterEnd ==
    \A s \in SubjectSet : \A i \in 1..Len(dl[s]) :
        (run' = run /\ dl[s][i].st \in {"done", "failed"}) => dl'[s][i] = dl[s][i]

\* C12: download_video makes at most 3 attempts, returns at the first that
\* succeeds and raises after the third failure.
BoundedDownloadRetry == [][NoPassAfterEnd]_vars /\ []RetryBounded

\* C12 witness: a download raised after its third attempt, beside one that
\* returned at its first.
ThirdAttemptRaised ==
    \E s \in SubjectSet : \E i, j \in 1..Len(dl[s]) :
        /\ dl[s][i].st = "failed"
        /\ dl[s][i].tries = 3
        /\ dl[s][j].st = "done"
        /\ dl[s][j].tries = 1

\* C13: a download whose every attempt failed has waited 2 s, 4 s and 8 s.
BackoffTwoFourEight ==
    \A s \in SubjectSet : \A i \in 1..Len(dl[s]) :
        dl[s][i].st = "failed" => dl[s][i].waits = <<2, 4, 8>>

\* C13 as amended: the delays are 2 s after the first failure and 4 s after the
\* second; the third failure raises without a delay.
BackoffTwoFour ==
    \A s \in SubjectSet : \A i \in 1..Len(dl[s]) :
        LET task == dl[s][i]
        IN  /\ task.waits \in {<< >>, <<2>>, <<2, 4>>}
            /\ Len(task.waits) = MinOf(task.retry, 2)
            /\ task.st = "failed" => task.waits = <<2, 4>>

\* C13 witness: a subject has ended after a download that failed three times.
FailedAfterTwoWaits ==
    \E s \in SubjectSet : \E i \in 1..Len(dl[s]) :
        /\ phase[s] = "DONE"
        /\ dl[s][i].st = "failed"
        /\ dl[s][i].waits = <<2, 4>>

\* transcribe_multiple_videos returns to process_subject s in this step.
PoolReturns(s) == run' = run /\ phase[s] = "transcribing" /\ phase'[s] # "transcribing"

\* The paths of s for which the transcriber was called and returned a text
TextReturned(s) ==
    {e \in Range(completed[s]) : e.called /\ e.ret # None}

\* The mapping from each such path to the text returned for it
NonNullMapping(s) ==
    [p \in {wk[s][e.k].path : e \in TextReturned(s)} |->
        (CHOOSE e \in TextReturned(s) : wk[s][e.k].path = p).ret]

\* C14: whatever the order of completion, the mapping returned holds exactly
\* the paths for which the transcriber returned a non-null text, with that
\* text; a path that failed the pre-check is not transcribed and is absent.
PoolResultMapping ==
    [][\A s \in SubjectSet :
          PoolReturns(s) =>
              /\ transcriptions'[s] = NonNullMapping(s)
              /\ \A e \in Range(completed[s]) :
                    ~e.called => /\ e.ret = None
                                 /\ wk[s][e.k].path \notin DOMAIN transcriptions'[s]]_vars

\* The paths of s for which the transcriber returned a text that is not empty
UsableReturned(s) ==
    {e \in Range(completed[s]) : e.called /\ e.ret # None /\ e.ret # << >>}

UsableMapping(s) ==
    [p \in {wk[s][e.k].path : e \in UsableReturned(s)} |->
        (CHOOSE e \in UsableReturned(s) : wk[s][e.k].path = p).ret]

\* C14 as amended: the mapping holds exactly the paths for which the
\* transcriber returned a text that is neither None nor empty.
PoolResultMappingNonEmpty ==
    [][\A s \in SubjectSet :
          PoolReturns(s) =>
              /\ transcriptions'[s] = UsableMapping(s)
              /\ \A e \in Range(completed[s]) :
                    ~e.called => /\ e.ret = None
                                 /\ wk[s][e.k].path \notin DOMAIN transcriptions'[s]]_vars

\* C14 witness: the pool returned a mapping with one of two submitted paths.
PoolReturnedOneOfTwo ==
    \E s \in SubjectSet :
        /\ phase[s] = "persisting"
        /\ Len(downloaded[s]) = 2
        /\ Cardinality(DOMAIN transcriptions[s]) = 1

\* C15: a video whose transcription is the empty string is in the mapping
\* returned and gets a persist task, which writes its artifact and marks it.
EmptyTranscriptIsSuccess ==
    [][\A s \in SubjectSet :
          PoolReturns(s) =>
              \A e \in Range(completed[s]) :
                  (e.called /\ e.ret = << >>) =>
                      /\ wk[s][e.k].path \in DOMAIN transcriptions'[s]
                      /\ \E j \in 1..Len(persist'[s]) :
                            persist'[s][j].name = downloaded[s][e.k].name]_vars

\* C15 as amended: a video whose transcription is the empty string is treated
\* as not transcribed: absent from the mapping, no persist task, not marked.
EmptyTranscriptIsFailure ==
    /\ hist.emptyText \cap hist.marked = {}
    /\ \A key \in hist.emptyText :
          /\ TempVideo(key[2]) \notin DOMAIN transcriptions[key[1]]
          /\ \A j \in 1..Len(persist[key[1]]) : persist[key[1]][j].name # key[2]

\* C15 witness: a subject has ended with one video marked and another, whose
\* transcript was empty, left unmarked.
EmptyTranscriptLeftUnmarked ==
    \E key \in hist.emptyText : \E other \in hist.marked :
        /\ key[1] = other[1]
        /\ phase[key[1]] = "DONE"
        /\ ~FindOne(store, key[1], key[2])

\* C16: when transcribe_with_ffmpeg_preprocessing returns, its extracted-audio
\* file does not exist.
NoLeakedAudio ==
    [][\A s \in SubjectSet : \A k \in (DOMAIN wk[s]) \cap (DOMAIN wk'[s]) :
          (wk[s][k].st # "returned" /\ wk'[s][k].st = "returned") =>
              audioFiles'[AudioPath(wk[s][k].path)] = "absent"]_vars

\* The videos of s whose download was verified and whose transcription gave a
\* text in this run
Succeeded(s) == {key \in hist.verified \cap hist.transcribed : key[1] = s}

\* C17: a failure of one video leaves that video unmarked and ends nothing but
\* its own task: when the subject has ended, every other video whose download,
\* transcription and persist steps succeeded is written and marked.
VideoFailureIsolation ==
    /\ hist.marked \subseteq hist.verified \cap hist.transcribed
    /\ \A s \in SubjectSet :
          /\ \A j \in 1..Len(persist[s]) :
                persist[s][j].st = "error" => <<s, persist[s][j].name>> \notin hist.marked
          /\ phase[s] = "ABORTED" => s \in hist.listRaised
          /\ phase[s] = "DONE" =>
                \A key \in Succeeded(s) : \E j \in 1..Len(persist[s]) :
                    /\ persist[s][j].name = key[2]
                    /\ persist[s][j].st \in {"done", "error"}
                    /\ persist[s][j].st = "done" =>
                          /\ key \in hist.marked \cap hist.written
                          /\ FindOne(store, key[1], key[2])

\* C17 witness: a subject has ended with one video marked in the run in which
\* the download of another video of the subject raised.
SiblingMarkedDespiteFailure ==
    \E s \in SubjectSet : \E key \in hist.marked : \E i \in 1..Len(dl[s]) :
        /\ key[1] = s
        /\ phase[s] = "DONE"
        /\ dl[s][i].st = "failed"
        /\ dl[s][i].file.name # key[2]
        /\ ~FindOne(store, s, dl[s][i].file.name)

\* The I/O-bound step subject o is waiting to take: a download resuming after
\* its backoff, an artifact write, a store insert or the clean-up
PendingIO(o) ==
    \/ \E i \in 1..Len(dl[o]) : dl[o][i].st = "sleeping" /\ DownloadAttempt(o, i)
    \/ \E j \in 1..Len(persist[o]) : PersistOpen(o, j) \/ PersistWrite(o, j) \/ PersistMark(o, j)
    \/ SubjectCleanup(o)

WaitsForIO(o) ==
    \/ phase[o] = "downloading" /\ \E i \in 1..Len(dl[o]) : dl[o][i].st = "sleeping"
    \/ phase[o] = "persisting"

\* C18: while a subject is inside transcribe_multiple_videos, the I/O-bound
\* steps of the other subjects can still be taken.
TranscriptionDoesNotStallIO ==
    \A s, o \in SubjectSet :
        (s # o /\ ~mainDone /\ phase[s] = "transcribing" /\ WaitsForIO(o))
            => ENABLED PendingIO(o)

\* The videos marked done or between the opening of its artifact and its insert
Persisted == MidPersist \cup {key \in Keys : FindOne(store, key[1], key[2])}

\* C19: two distinct videos that are being persisted or are marked done have
\* distinct artifact paths.
ArtifactPathsUnique ==
    \A k1, k2 \in Persisted : k1 # k2 => TxtName(k1[2]) # TxtName(k2[2])

\* The workers of s that hold an extracted-audio file
UsingAudio(s) == {k \in 1..Len(wk[s]) : wk[s][k].st \in {"extracted", "fallback"}}

\* C20: two workers of one call of transcribe_multiple_videos that run at the
\* same time use different extracted-audio paths.
WorkerAudioDisjoint ==
    \A s \in SubjectSet : \A k1, k2 \in UsingAudio(s) :
        k1 # k2 => AudioPath(wk[s][k1].path) # AudioPath(wk[s][k2].path)

====
